---- MODULE Spec2Model ----
(***************************************************************************)
(* Model of the two translation units of inline_expansion:                 *)
(*   src/main.c                 main, foo and bar (the demo program)       *)
(*   src/c_project/H5_Report/Core/Src/print_config.c   send_char           *)
(* Characters are their ASCII codes, a C string is the byte sequence of    *)
(* its storage (terminator included), standard output is the byte          *)
(* sequence written so far, a pointer is an address.                       *)
(***************************************************************************)
EXTENDS Integers, Sequences, FiniteSets, TLC

VARIABLES pc, x, str, strp, len, out, ret, count, c, i, reads, barCalls,
          scPc, ch, txLog, txStatus

demoVars == <<pc, x, str, strp, len, out, ret, count, c, i, reads, barCalls>>
uartVars == <<scPc, ch, txLog, txStatus>>
vars == <<pc, x, str, strp, len, out, ret, count, c, i, reads, barCalls,
          scPc, ch, txLog, txStatus>>

(* ---------------------------- bounds ----------------------------------- *)
MaxStrLen == 3      \* generated strings have 0..MaxStrLen characters
MaxLen == 7         \* generated bounds run over -LenBelow..MaxLen
LenBelow == 2
XSpan == 2          \* generated x run over 10-XSpan..10+XSpan

\* The range of int (32 bits).
INT_MAX == 2147483647
INT_MIN == (-INT_MAX) - 1

Min(a, b) == IF a < b THEN a ELSE b
Max(a, b) == IF a > b THEN a ELSE b

(* ------------------------- string literals ----------------------------- *)
\* "Hello"
Hello == <<72, 101, 108, 108, 111>>
\* "X less than 10\n"
FmtXLess == <<88, 32, 108, 101, 115, 115, 32, 116, 104, 97, 110, 32, 49, 48, 10>>
\* "%s has %d chars\n"
FmtHas == <<37, 115, 32, 104, 97, 115, 32, 37, 100, 32, 99, 104, 97, 114, 115, 10>>
\* "Matching count ? %s\n"
FmtMatch == <<77, 97, 116, 99, 104, 105, 110, 103, 32, 99, 111, 117, 110, 116,
              32, 63, 32, 37, 115, 10>>
\* "Foo return : %d\n"
FmtFooRet == <<70, 111, 111, 32, 114, 101, 116, 117, 114, 110, 32, 58, 32, 37,
               100, 10>>
\* "No" and "Yes"
StrNo == <<78, 111>>
StrYes == <<89, 101, 115>>

(* --------------------------- C library --------------------------------- *)
\* The characters of the C string stored in mem: those before the first NUL.
RECURSIVE CStr(_)
CStr(mem) ==
    IF mem = <<>> \/ mem[1] = 0 THEN <<>> ELSE <<mem[1]>> \o CStr(Tail(mem))

strlen(mem) == Len(CStr(mem))

RECURSIVE Digits(_)
Digits(n) == IF n < 10 THEN <<48 + n>> ELSE Digits(n \div 10) \o <<48 + (n % 10)>>

\* The %d conversion of an int: a minus sign and the digits of the magnitude
\* (the magnitude of INT_MIN is no int, so its last digit is split off first).
Decimal(n) ==
    IF n < 0
    THEN LET d == (10 - (n % 10)) % 10
             q == -((n + d) \div 10)
         IN  <<45>> \o (IF q = 0 THEN <<>> ELSE Digits(q)) \o <<48 + d>>
    ELSE Digits(n)

\* The bytes printf writes for a format and its arguments (%s and %d only;
\* a %s argument is the storage of a C string).
RECURSIVE Format(_, _)
Format(fmt, args) ==
    IF fmt = <<>> THEN <<>>
    ELSE IF fmt[1] = 37 /\ Len(fmt) >= 2
         THEN IF fmt[2] = 115
              THEN CStr(args[1]) \o Format(SubSeq(fmt, 3, Len(fmt)), Tail(args))
              ELSE Decimal(args[1]) \o Format(SubSeq(fmt, 3, Len(fmt)), Tail(args))
         ELSE <<fmt[1]>> \o Format(Tail(fmt), args)

(* ------------------------------ inputs --------------------------------- *)
Alphabet == {97, 98}
Strs == {Hello} \cup UNION {[1..n -> Alphabet] : n \in 0..MaxStrLen}
Xs == ((10 - XSpan)..(10 + XSpan)) \cup {INT_MIN, INT_MAX}
Lens == ((-LenBelow)..MaxLen) \cup {INT_MIN, INT_MAX}
Addrs == {1, 4096}

\* main's own literals: x = 10, str = "Hello", len = strlen(str).
MainInputs == x = 10 /\ str = Hello \o <<0>> /\ len = strlen(str)

(* ------------------------------- foo ----------------------------------- *)
foo_threshold_le(xx) == xx <= 10

foo_threshold_9(xx) == xx < 9

\* main.c:18, the threshold test.
foo_threshold(xx) == xx < 10

\* main.c:20, the error sentinel.
foo_error_ret == -1

foo_result_len(nprinted, ll) == ll

foo_result_no_newline(nprinted, ll) == nprinted - 1

\* main.c:24, foo's result: what printf returned, the number of bytes written.
foo_result(nprinted, ll) == nprinted

(* ------------------------------- bar ----------------------------------- *)
\* The byte(s) a read of address a can yield: the stored byte inside the
\* string's storage, any byte outside it.
Deref(a) ==
    IF a - strp + 1 \in 1..Len(str) THEN {str[a - strp + 1]} ELSE {0, 97}

bar_loop_cond_le(cc, ii, ll) == cc # 0 /\ ii <= ll

bar_loop_cond_no_nul(cc, ii, ll) == ii < ll

\* main.c:30, the loop condition on the byte read and the index.
bar_loop_cond(cc, ii, ll) == cc # 0 /\ ii < ll

bar_advance_stuck(p) == p

\* main.c:30, the c++ of the loop condition.
bar_advance(p) == p + 1

\* main.c:33, c ? "No" : "Yes" (the null pointer is address 0).
bar_verdict(p) == IF p # 0 THEN StrNo ELSE StrYes

(* ------------------------ the demo program ----------------------------- *)
InitUartIdle ==
    /\ scPc = "idle"
    /\ ch = 0
    /\ txLog = <<>>
    /\ txStatus = "none"

Init ==
    /\ pc = "main_call"
    /\ x \in Xs
    /\ \E s \in Strs : str = s \o <<0>>
    /\ strp \in Addrs
    /\ len \in Lens
    /\ out = <<>>
    /\ ret = 0
    /\ count = 0
    /\ c = 0
    /\ i = 0
    /\ reads = <<>>
    /\ barCalls = 0
    /\ InitUartIdle

\* main.c:13, the call of foo.
main_call_foo ==
    /\ pc = "main_call"
    /\ pc' = "foo_entry"
    /\ UNCHANGED <<x, str, strp, len, out, ret, count, c, i, reads, barCalls>>
    /\ UNCHANGED uartVars

\* main.c:18-21, the early return.
foo_early_return ==
    /\ pc = "foo_entry"
    /\ foo_threshold(x)
    /\ out' = out \o Format(FmtXLess, <<>>)
    /\ ret' = foo_error_ret
    /\ pc' = "main_printf"
    /\ UNCHANGED <<x, str, strp, len, count, c, i, reads, barCalls>>
    /\ UNCHANGED uartVars

\* main.c:23 and 28-30, the call of bar and its initialisations.
foo_call_bar ==
    /\ pc = "foo_entry"
    /\ ~foo_threshold(x)
    /\ barCalls' = barCalls + 1
    /\ count' = 0
    /\ c' = strp
    /\ i' = 0
    /\ pc' = "bar_cond"
    /\ UNCHANGED <<x, str, strp, len, out, ret, reads>>
    /\ UNCHANGED uartVars

\* main.c:30, one evaluation of (*c++) && i < len.
bar_cond ==
    /\ pc = "bar_cond"
    /\ \E cc \in Deref(c) :
          pc' = IF bar_loop_cond(cc, i, len) THEN "bar_body" ELSE "bar_printf"
    /\ reads' = Append(reads, c - strp)
    /\ c' = bar_advance(c)
    /\ UNCHANGED <<x, str, strp, len, out, ret, count, i, barCalls>>
    /\ UNCHANGED uartVars

\* main.c:31 and the ++i of line 30.
bar_body ==
    /\ pc = "bar_body"
    /\ count' = count + 1
    /\ i' = i + 1
    /\ pc' = "bar_cond"
    /\ UNCHANGED <<x, str, strp, len, out, ret, c, reads, barCalls>>
    /\ UNCHANGED uartVars

\* main.c:33, bar's printf and its return.
bar_printf ==
    /\ pc = "bar_printf"
    /\ out' = out \o Format(FmtMatch, <<bar_verdict(c) \o <<0>> >>)
    /\ pc' = "foo_printf"
    /\ UNCHANGED <<x, str, strp, len, ret, count, c, i, reads, barCalls>>
    /\ UNCHANGED uartVars

\* main.c:24, foo returns what printf returns.
foo_printf ==
    /\ pc = "foo_printf"
    /\ out' = out \o Format(FmtHas, <<str, len>>)
    /\ ret' = foo_result(Len(Format(FmtHas, <<str, len>>)), len)
    /\ pc' = "main_printf"
    /\ UNCHANGED <<x, str, strp, len, count, c, i, reads, barCalls>>
    /\ UNCHANGED uartVars

\* main.c:14.
main_printf ==
    /\ pc = "main_printf"
    /\ out' = out \o Format(FmtFooRet, <<ret>>)
    /\ pc' = "done"
    /\ UNCHANGED <<x, str, strp, len, ret, count, c, i, reads, barCalls>>
    /\ UNCHANGED uartVars

Next ==
    \/ main_call_foo
    \/ foo_early_return
    \/ foo_call_bar
    \/ bar_cond
    \/ bar_body
    \/ bar_printf
    \/ foo_printf
    \/ main_printf

Spec == Init /\ [][Next]_vars

\* A single thread of control: the processor keeps executing the program.
FairSpec == Spec /\ WF_vars(Next)

(* ------------------------------ send_char ------------------------------ *)
\* Every value a char can hold, signed or unsigned.
Chars == (-128)..255

\* print_config.c:6, sizeof(c).
SizeofChar == 1

\* The statuses HAL_UART_Transmit reports.
HAL_Status == {"HAL_OK", "HAL_ERROR", "HAL_BUSY", "HAL_TIMEOUT"}

\* print_config.c:6, (uint8_t*) &c: the storage of c read as bytes.
send_char_payload(cc) == <<cc % 256>>

send_char_retry(st) == IF st = "HAL_OK" THEN "returned" ELSE "entry"

\* print_config.c:6-8, the status is dropped and send_char returns.
send_char_after(st) == "returned"

InitDemoIdle ==
    /\ pc = "main_call"
    /\ x = 10
    /\ str = Hello \o <<0>>
    /\ strp = 1
    /\ len = strlen(str)
    /\ out = <<>>
    /\ ret = 0
    /\ count = 0
    /\ c = 0
    /\ i = 0
    /\ reads = <<>>
    /\ barCalls = 0

InitUart ==
    /\ InitDemoIdle
    /\ scPc = "entry"
    /\ ch \in Chars
    /\ txLog = <<>>
    /\ txStatus = "none"

\* print_config.c:6, the call of HAL_UART_Transmit.
send_char_transmit ==
    /\ scPc = "entry"
    /\ txLog' = Append(txLog, [pData |-> send_char_payload(ch),
                               Size |-> SizeofChar,
                               Timeout |-> "HAL_MAX_DELAY"])
    /\ scPc' = "in_hal"
    /\ UNCHANGED <<ch, txStatus>>
    /\ UNCHANGED demoVars

\* The driver finishes the transfer, or gives up, and reports a status.
HAL_UART_Transmit ==
    /\ scPc = "in_hal"
    /\ \E st \in HAL_Status : txStatus' = st
    /\ scPc' = "after_hal"
    /\ UNCHANGED <<ch, txLog>>
    /\ UNCHANGED demoVars

\* print_config.c:8.
send_char_return ==
    /\ scPc = "after_hal"
    /\ scPc' = send_char_after(txStatus)
    /\ UNCHANGED <<ch, txLog, txStatus>>
    /\ UNCHANGED demoVars

NextUart ==
    \/ send_char_transmit
    \/ HAL_UART_Transmit
    \/ send_char_return

SpecUart == InitUart /\ [][NextUart]_vars

(* ====================== properties of the demo program ================= *)
\* "Matching count ? No\n" and "Matching count ? Yes\n"
LineMatchNo == <<77, 97, 116, 99, 104, 105, 110, 103, 32, 99, 111, 117, 110,
                 116, 32, 63, 32, 78, 111, 10>>
LineMatchYes == <<77, 97, 116, 99, 104, 105, 110, 103, 32, 99, 111, 117, 110,
                  116, 32, 63, 32, 89, 101, 115, 10>>
\* "Hello has 5 chars\n"
LineHello5 == <<72, 101, 108, 108, 111, 32, 104, 97, 115, 32, 53, 32, 99, 104,
                97, 114, 115, 10>>
\* "Foo return : 18\n" and "Foo return : -1\n"
LineFooRet18 == <<70, 111, 111, 32, 114, 101, 116, 117, 114, 110, 32, 58, 32,
                  49, 56, 10>>
LineFooRetM1 == <<70, 111, 111, 32, 114, 101, 116, 117, 114, 110, 32, 58, 32,
                  45, 49, 10>>
\* " has 0 chars\n"
LineShortest == <<32, 104, 97, 115, 32, 48, 32, 99, 104, 97, 114, 115, 10>>

IsPrefix(s, t) == Len(s) <= Len(t) /\ SubSeq(t, 1, Len(s)) = s

Contains(s, t) ==
    \E k \in 1..(Len(s) - Len(t) + 1) : SubSeq(s, k, k + Len(t) - 1) = t

\* The number of characters of the decimal text of n, counted arithmetically.
DigitCount(n) == IF n = 0 THEN 1 ELSE Cardinality({k \in 0..9 : 10^k <= n})
DecLen(n) ==
    IF n = INT_MIN THEN 11 ELSE IF n < 0 THEN 1 + DigitCount(-n) ELSE DigitCount(n)

FooReturned == pc \in {"main_printf", "done"}
BarReturned == pc \in {"foo_printf", "main_printf", "done"} /\ barCalls = 1
InBar == pc \in {"bar_cond", "bar_body", "bar_printf"}

\* The line bar printed, once it has returned.
BarLine == SubSeq(out, 1, Min(Len(out), Len(LineMatchNo)))

\* C1 as stated: main prints "Hello has 5 chars", then "Matching count ? No",
\* then "Foo return : 18".
C1_Original ==
    (MainInputs /\ pc = "done") => out = LineHello5 \o LineMatchNo \o LineFooRet18

\* C1 amended: with main's literals the output is, in this order,
\* "Matching count ? No", "Hello has 5 chars", "Foo return : 18"; every
\* intermediate output is a prefix of it, so "X less than 10" never appears.
C1_Amended ==
    MainInputs =>
        /\ IsPrefix(out, LineMatchNo \o LineHello5 \o LineFooRet18)
        /\ ~Contains(out, FmtXLess)
        /\ pc = "done" => out = LineMatchNo \o LineHello5 \o LineFooRet18

C1_Witness == MainInputs /\ pc = "done" /\ barCalls = 1

\* C2: for x < 10 foo returns -1, prints only "X less than 10" and never
\* calls bar (no read of str, no other line); the caller then shows
\* "X less than 10" followed by "Foo return : -1".
C2_EarlyReturn ==
    x < 10 =>
        /\ barCalls = 0
        /\ reads = <<>>
        /\ ~InBar /\ pc # "foo_printf"
        /\ pc \in {"main_call", "foo_entry"} => out = <<>>
        /\ pc = "main_printf" => (ret = -1 /\ out = FmtXLess)
        /\ pc = "done" => (ret = -1 /\ out = FmtXLess \o LineFooRetM1)

C2_Witness == x < 10 /\ pc = "done" /\ ret = -1 /\ barCalls = 0

\* The line "<str> has <len> chars\n".
HasLine == CStr(str) \o <<32, 104, 97, 115, 32>> \o Decimal(len)
               \o <<32, 99, 104, 97, 114, 115, 10>>

\* C3 as stated: for x >= 10 foo returns length(str) + (characters of
\* decimal len) + 11.
C3_Original ==
    (x >= 10 /\ FooReturned) => ret = strlen(str) + DecLen(len) + 11

\* C3 amended: for x >= 10 foo does not print "X less than 10", calls bar
\* exactly once, and returns the positive number of characters of the line
\* "<str> has <len> chars\n" it printed: length(str) + (characters of decimal
\* len) + 12.
C3_Amended ==
    x >= 10 =>
        /\ ~Contains(out, FmtXLess)
        /\ barCalls <= 1
        /\ pc = "main_printf" => out = BarLine \o HasLine
        /\ FooReturned =>
              /\ barCalls = 1
              /\ ret > 0
              /\ ret = Len(HasLine)
              /\ ret = strlen(str) + DecLen(len) + 12

C3_Witness ==
    x >= 10 /\ pc = "main_printf" /\ barCalls = 1 /\ strlen(str) = 3
        /\ len = -2 /\ ret = 17

\* C4: for 0 <= len <= length(str), bar dereferences its cursor exactly
\* min(len, length(str)) times and prints "Matching count ? No".
C4_Claim ==
    (BarReturned /\ 0 <= len /\ len <= strlen(str)) =>
        /\ Len(reads) = Min(len, strlen(str))
        /\ BarLine = LineMatchNo

\* C5: every index bar reads is at most length(str) and less than len.
C5_Claim ==
    \A k \in 1..Len(reads) : reads[k] <= strlen(str) /\ reads[k] < len

\* C7: when bar's loop exits, the counter is min(max(len, 0), length(str))
\* and the cursor is one past the last character examined, at offset
\* counter + 1 from str.
C7_LoopExit ==
    pc = "bar_printf" =>
        /\ count = Min(Max(len, 0), strlen(str))
        /\ c = strp + count + 1
        /\ reads # <<>>
        /\ c = strp + reads[Len(reads)] + 1

C7_Witness == pc = "bar_printf" /\ 0 < count /\ count < strlen(str)

\* C8: for every len, every index bar reads lies in 0..length(str).
C8_ReadsInString ==
    \A k \in 1..Len(reads) : reads[k] \in 0..strlen(str)

C8_Witness ==
    /\ pc = "bar_printf"
    /\ len > strlen(str)
    /\ strlen(str) > 0
    /\ reads[Len(reads)] = strlen(str)

\* C9: bar's loop body runs at most max(len, 0) times and at most
\* length(str) times, and the program always runs to its end.
C9_Terminates ==
    /\ [](count <= Max(len, 0) /\ count <= strlen(str))
    /\ <>(pc = "done")

C9_Witness == pc = "done" /\ barCalls = 1 /\ count = 5 /\ len > 5

\* C10 as stated: foo returns -1 exactly when x < 10, and for x >= 10 it
\* returns at least 12, the length of the shortest line " has 0 chars\n".
C10_Original ==
    FooReturned =>
        /\ (ret = -1) <=> (x < 10)
        /\ x >= 10 => ret >= 12
        /\ (x >= 10 /\ HasLine = LineShortest) => ret = 12

\* C10 amended: foo returns -1 exactly when x < 10, and for x >= 10 it
\* returns at least 13, the length of the shortest line " has 0 chars\n".
C10_Amended ==
    FooReturned =>
        /\ (ret = -1) <=> (x < 10)
        /\ x >= 10 => ret >= 13
        /\ (x >= 10 /\ HasLine = LineShortest) => ret = 13

C10_Witness == pc = "main_printf" /\ x >= 10 /\ HasLine = LineShortest /\ ret = 13

(* ========================= properties of send_char ===================== *)
\* C6: send_char makes exactly one transmit call, of the single byte c with
\* length 1, never a second one, returns only after the call has reported a
\* status, and returns in the same way whatever the status.
C6_OneTransmit ==
    /\ [](/\ Len(txLog) <= 1
          /\ scPc # "entry" =>
                /\ Len(txLog) = 1
                /\ txLog[1].pData = <<IF ch < 0 THEN ch + 256 ELSE ch>>
                /\ txLog[1].Size = 1
          /\ scPc = "returned" => txStatus \in HAL_Status)
    /\ [][scPc = "after_hal" => (scPc' = "returned" /\ txLog' = txLog)]_vars

C6_Witness == scPc = "returned" /\ txStatus = "HAL_TIMEOUT" /\ ch < 0

====
